---- MODULE Spec2Model ----
(***************************************************************************)
(* Luminara: the harmonic-angle scanner of streamlit_app.py.               *)
(*                                                                         *)
(* Times are POSIX timestamps counted in ticks of 1/TicksPerSecond second, *)
(* angles are whole degrees.                                               *)
(* The ephemeris is the external collaborator: a deterministic longitude   *)
(* per body and instant, drawn at Init from a family of uniform motions,   *)
(* whose every evaluation may also fail (raise).                           *)
(***************************************************************************)
EXTENDS Integers, Sequences, FiniteSets, TLC

VARIABLES
    \* arguments of scan_harmonic_timing_refined
    eph, planet1, planet2, harmonic_angles, orb, start_date, end_date, step_minutes,
    \* locals of scan_harmonic_timing_refined
    pc, results, current_dt, next_dt, t_lo, t_hi, t_mid, ti,
    mid_diff, lo_diff, hi_diff,
    brackets_processed, minutes_processed, progress,
    \* frame of refine_hit_time_golden, the (time, deviation) pairs it has
    \* evaluated in the current call, and its returned pair
    gs, probes, t_best, diff_best,
    \* what the scan returns
    deduped, table,
    \* main(): the sidebar's widgets and what main has shown
    ui,
    \* argument and result of a single angle_diff_to_target_deg evaluation
    probe,
    \* the exception being handled or propagated, if any, and whether an
    \* ephemeris longitude has been asked for since the request began
    exc, eph_used

vars == << eph, planet1, planet2, harmonic_angles, orb, start_date, end_date, step_minutes,
           pc, results, current_dt, next_dt, t_lo, t_hi, t_mid, ti,
           mid_diff, lo_diff, hi_diff,
           brackets_processed, minutes_processed, progress,
           gs, probes, t_best, diff_best, deduped, table, ui, probe, exc, eph_used >>

argVars == << eph, planet1, planet2, harmonic_angles, orb, start_date, end_date, step_minutes >>

----------------------------------------------------------------------------
\* Bounds of the model
MaxBrackets == 4
MaxResults == 3
\* Resolution of the clock: ticks per second
TicksPerSecond == 10

\* Program constants
FullCircle == 360
HalfCircle == 180
ResphiNum == 382
ResphiDen == 1000
max_iter == 15
tol_seconds == 3
MinGapSeconds == 30
SecondsPerMinute == 60

None == "None"
\* a local holding no number yet (times and deviations are never negative)
Unset == 0 - 1

Abs(x) == IF x < 0 THEN -x ELSE x
Min2(x, y) == IF x <= y THEN x ELSE y
Max2(x, y) == IF x >= y THEN x ELSE y
Min3(x, y, z) == Min2(x, Min2(y, z))

----------------------------------------------------------------------------
\* Ecliptic longitude and angle helpers

\* An ephemeris e gives each body a longitude at t = 0 and a uniform motion of
\* e.num[body] degrees per e.den seconds; the result is reduced into [0, 360).
ecliptic_longitude_deg(e, planet_name, t) ==
    (e.lon0[planet_name] + (e.num[planet_name] * t) \div e.den) % FullCircle

angle_between_ecliptic_longitudes_deg(e, p1, p2, t) ==
    (ecliptic_longitude_deg(e, p1, t) - ecliptic_longitude_deg(e, p2, t)) % FullCircle

\* Variant: the plain difference, no wrap-around
SeparationDiffNaive(separation, target) == Abs(separation - target)

\* The arithmetic of angle_diff_to_target_deg on a separation already computed.
SeparationDiff(separation, target) ==
    LET diff1 == Abs(separation - target)
        diff2 == IF target < HalfCircle
                 THEN Abs(separation - (target + FullCircle))
                 ELSE Abs(separation - (target - FullCircle))
        diff3 == FullCircle - diff1
    IN  Min3(diff1, diff2, diff3)

angle_diff_to_target_deg(e, p1, p2, t, target) ==
    SeparationDiff(angle_between_ecliptic_longitudes_deg(e, p1, p2, t), target)

\* The objective of the running scan at instant t for a target.
Dev(t, target) == angle_diff_to_target_deg(eph, planet1, planet2, t, target)

----------------------------------------------------------------------------
\* refine_hit_time_golden: golden-section search over [a, b]

NoFrame == [a |-> 0, b |-> 0, x1 |-> 0, x2 |-> 0, t1 |-> 0, t2 |-> 0,
            f1 |-> 0, f2 |-> 0, iteration |-> 0]

\* resphi * width, resphi = 2 - phi, in whole ticks
Resphi(width) == (ResphiNum * width) \div ResphiDen

CurTarget == harmonic_angles[ti]

\* Entry of the call: the too-small bracket returns its midpoint at once,
\* otherwise the two initial probes are placed and evaluated.
RefineStart ==
    /\ pc = "refine"
    /\ LET a == t_lo
           b == t_hi
       IN  IF (b - a) < tol_seconds * TicksPerSecond
           THEN /\ t_best' = (a + b) \div 2
                /\ diff_best' = Dev((a + b) \div 2, CurTarget)
                /\ probes' = { << (a + b) \div 2, Dev((a + b) \div 2, CurTarget) >> }
                /\ pc' = "accept"
                /\ gs' = NoFrame
           ELSE LET x1 == a + Resphi(b - a)
                    x2 == b - Resphi(b - a)
                IN  /\ gs' = [a |-> a, b |-> b, x1 |-> x1, x2 |-> x2,
                              t1 |-> x1, t2 |-> x2,
                              f1 |-> Dev(x1, CurTarget), f2 |-> Dev(x2, CurTarget),
                              iteration |-> 0]
                    /\ probes' = { << x1, Dev(x1, CurTarget) >>,
                                   << x2, Dev(x2, CurTarget) >> }
                    /\ pc' = "refine_loop"
                    /\ UNCHANGED << t_best, diff_best >>
    /\ UNCHANGED << argVars, results, current_dt, next_dt, t_lo, t_hi, t_mid, ti,
                    mid_diff, lo_diff, hi_diff, brackets_processed,
                    minutes_processed, progress, deduped, table, ui, probe, exc, eph_used >>

\* The frame after one pass of the for loop's body.
GoldenStep(g, target) ==
    IF g.f1 < g.f2
    THEN LET b  == g.x2
             x1 == g.a + Resphi(b - g.a)
         IN  [g EXCEPT !.b = b, !.x2 = g.x1, !.f2 = g.f1,
                       !.x1 = x1, !.t1 = x1, !.f1 = Dev(x1, target),
                       !.iteration = g.iteration + 1]
    ELSE LET a  == g.x1
             x2 == g.b - Resphi(g.b - a)
         IN  [g EXCEPT !.a = a, !.x1 = g.x2, !.f1 = g.f2,
                       !.x2 = x2, !.t2 = x2, !.f2 = Dev(x2, target),
                       !.iteration = g.iteration + 1]

LoopRuns(g) == g.iteration < max_iter /\ ~((g.b - g.a) < tol_seconds * TicksPerSecond)

RefineIter ==
    /\ pc = "refine_loop"
    /\ LoopRuns(gs)
    /\ gs' = GoldenStep(gs, CurTarget)
    /\ probes' = probes \cup { IF gs.f1 < gs.f2 THEN << gs'.t1, gs'.f1 >>
                                                ELSE << gs'.t2, gs'.f2 >> }
    /\ UNCHANGED << argVars, pc, results, current_dt, next_dt, t_lo, t_hi, t_mid, ti,
                    mid_diff, lo_diff, hi_diff, brackets_processed,
                    minutes_processed, progress, t_best, diff_best,
                    deduped, table, ui, probe, exc, eph_used >>

\* Variant: the second probe is returned whatever the two values
BestPointSecond(g) == << g.t2, g.f2 >>

\* "Return best point"
BestPoint(g) == IF g.f1 < g.f2 THEN << g.t1, g.f1 >> ELSE << g.t2, g.f2 >>

RefineReturn ==
    /\ pc = "refine_loop"
    /\ ~LoopRuns(gs)
    /\ t_best' = BestPoint(gs)[1]
    /\ diff_best' = BestPoint(gs)[2]
    /\ pc' = "accept"
    /\ gs' = NoFrame
    /\ UNCHANGED << argVars, results, current_dt, next_dt, t_lo, t_hi, t_mid, ti,
                    mid_diff, lo_diff, hi_diff, brackets_processed,
                    minutes_processed, progress, probes, deduped, table, ui, probe, exc, eph_used >>

\* Variant: no handler around the call, the exception leaves the scan
RefineRaiseAbort ==
    /\ \/ pc = "refine"
       \/ pc = "refine_loop" /\ gs.iteration < max_iter
                             /\ ~((gs.b - gs.a) < tol_seconds * TicksPerSecond)
    /\ pc' = "raised"
    /\ exc' = "propagated"
    /\ gs' = NoFrame
    /\ UNCHANGED << argVars, results, current_dt, next_dt, t_lo, t_hi, t_mid, ti,
                    mid_diff, lo_diff, hi_diff, brackets_processed,
                    minutes_processed, progress, probes, t_best, diff_best,
                    deduped, table, ui, probe, eph_used >>

\* An ephemeris evaluation inside the call raises; the scanner's
\* "except Exception: continue" goes on with the next target.
RefineRaise ==
    /\ \/ pc = "refine"
       \/ pc = "refine_loop" /\ LoopRuns(gs)
    /\ pc' = "target"
    /\ ti' = ti + 1
    /\ gs' = NoFrame
    /\ exc' = "caught"
    /\ UNCHANGED << argVars, results, current_dt, next_dt, t_lo, t_hi, t_mid,
                    mid_diff, lo_diff, hi_diff, brackets_processed,
                    minutes_processed, progress, probes, t_best, diff_best,
                    deduped, table, ui, probe, eph_used >>

----------------------------------------------------------------------------
\* scan_harmonic_timing_refined

\* timedelta(minutes=step_minutes)
StepTicks == step_minutes * SecondsPerMinute * TicksPerSecond

\* Variant: the bracket's end is not clamped to end_date
LoopEnterUnclamped ==
    /\ pc = "loop"
    /\ current_dt <= end_date
    /\ brackets_processed < MaxBrackets
    /\ next_dt' = current_dt + StepTicks
    /\ t_lo' = current_dt
    /\ t_hi' = current_dt + StepTicks
    /\ t_mid' = current_dt + StepTicks \div 2
    /\ ti' = 1
    /\ pc' = "target"
    /\ UNCHANGED << argVars, results, current_dt, mid_diff, lo_diff, hi_diff,
                    brackets_processed, minutes_processed, progress,
                    gs, probes, t_best, diff_best, deduped, table, ui, probe, exc, eph_used >>

\* while current_dt <= end_date: the bracket [current_dt, next_dt] and its midpoint
LoopEnter ==
    /\ pc = "loop"
    /\ current_dt <= end_date
    /\ brackets_processed < MaxBrackets
    /\ LET nxt == Min2(current_dt + StepTicks, end_date)
       IN  /\ next_dt' = nxt
           /\ t_lo' = current_dt
           /\ t_hi' = nxt
           /\ t_mid' = current_dt + (nxt - current_dt) \div 2
    /\ ti' = 1
    /\ pc' = "target"
    /\ UNCHANGED << argVars, results, current_dt, mid_diff, lo_diff, hi_diff,
                    brackets_processed, minutes_processed, progress,
                    gs, probes, t_best, diff_best, deduped, table, ui, probe, exc, eph_used >>

\* One pass of "for target_angle in harmonic_angles" up to the decision to refine.
CoarseCheck ==
    /\ pc = "target"
    /\ ti <= Len(harmonic_angles)
    /\ LET m == Dev(t_mid, CurTarget)
           l == Dev(t_lo, CurTarget)
           h == Dev(t_hi, CurTarget)
       IN  /\ mid_diff' = m
           /\ IF m > orb * 2
              THEN /\ ti' = ti + 1
                   /\ UNCHANGED << pc, lo_diff, hi_diff >>
              ELSE /\ lo_diff' = l
                   /\ hi_diff' = h
                   /\ IF 2 * Min3(m, l, h) <= orb * 3
                      THEN pc' = "refine" /\ UNCHANGED ti
                      ELSE ti' = ti + 1 /\ UNCHANGED pc
    /\ exc' = None
    /\ eph_used' = TRUE
    /\ UNCHANGED << argVars, results, current_dt, next_dt, t_lo, t_hi, t_mid,
                    brackets_processed, minutes_processed, progress,
                    gs, probes, t_best, diff_best, deduped, table, ui, probe >>

\* An ephemeris evaluation of the coarse check raises: it is outside the try
\* block, so the exception leaves scan_harmonic_timing_refined.
CoarseRaise ==
    /\ pc = "target"
    /\ ti <= Len(harmonic_angles)
    /\ pc' = "raised"
    /\ exc' = "propagated"
    /\ eph_used' = TRUE
    /\ UNCHANGED << argVars, results, current_dt, next_dt, t_lo, t_hi, t_mid, ti,
                    mid_diff, lo_diff, hi_diff, brackets_processed,
                    minutes_processed, progress, gs, probes, t_best, diff_best,
                    deduped, table, ui, probe >>

\* utc_strftime('%Y-%m-%d %H:%M:%S'): the instant rounded to the nearest second
utc_strftime(t) == (t + TicksPerSecond \div 2) \div TicksPerSecond

Hit(t, target, delta) ==
    [timestamp |-> t, datetime_str |-> utc_strftime(t), planet1 |-> planet1, planet2 |-> planet2,
     target |-> target, delta |-> delta]

\* Variant: every refined result is recorded, without the orb test
AcceptUnfiltered ==
    /\ pc = "accept"
    /\ Len(results) < MaxResults
    /\ results' = Append(results, Hit(t_best, harmonic_angles[ti], diff_best))
    /\ ti' = ti + 1
    /\ pc' = "target"
    /\ UNCHANGED << argVars, current_dt, next_dt, t_lo, t_hi, t_mid,
                    mid_diff, lo_diff, hi_diff, brackets_processed,
                    minutes_processed, progress, gs, probes, t_best, diff_best,
                    deduped, table, ui, probe, exc, eph_used >>

\* "Only record if within actual orb"
Accept ==
    /\ pc = "accept"
    /\ IF diff_best <= orb
       THEN /\ Len(results) < MaxResults
            /\ results' = Append(results, Hit(t_best, CurTarget, diff_best))
       ELSE UNCHANGED results
    /\ ti' = ti + 1
    /\ pc' = "target"
    /\ UNCHANGED << argVars, current_dt, next_dt, t_lo, t_hi, t_mid,
                    mid_diff, lo_diff, hi_diff, brackets_processed,
                    minutes_processed, progress, gs, probes, t_best, diff_best,
                    deduped, table, ui, probe, exc, eph_used >>

TotalTicks == end_date - start_date

\* max(1, int(total_minutes / step_minutes / 100))
update_frequency ==
    Max2(1, IF TotalTicks >= 0
            THEN TotalTicks \div (TicksPerSecond * SecondsPerMinute * step_minutes * 100)
            ELSE 0)

\* int(min(minutes_processed / total_minutes, 1.0) * 100)
ProgressPercent(minutes) ==
    Min2(100, (minutes * SecondsPerMinute * TicksPerSecond * 100) \div TotalTicks)

\* End of the while body: counters, progress display, "current_dt = next_dt".
NextBracket ==
    /\ pc = "target"
    /\ ti > Len(harmonic_angles)
    /\ brackets_processed' = brackets_processed + 1
    /\ minutes_processed' = minutes_processed + step_minutes
    /\ IF (brackets_processed + 1) % update_frequency = 0 \/ current_dt >= end_date
       THEN IF TotalTicks = 0
            THEN \* ZeroDivisionError in minutes_processed / total_minutes
                 /\ pc' = "raised"
                 /\ exc' = "propagated"
                 /\ UNCHANGED << progress, current_dt >>
            ELSE /\ progress' = ProgressPercent(minutes_processed + step_minutes)
                 /\ current_dt' = next_dt
                 /\ pc' = "loop"
                 /\ exc' = None
       ELSE /\ current_dt' = next_dt
            /\ pc' = "loop"
            /\ exc' = None
            /\ UNCHANGED progress
    /\ UNCHANGED << argVars, results, next_dt, t_lo, t_hi, t_mid, ti,
                    mid_diff, lo_diff, hi_diff, gs, probes, t_best, diff_best,
                    deduped, table, ui, probe, eph_used >>

----------------------------------------------------------------------------
\* Deduplication and the returned table

\* sorted(results, key=lambda x: x['timestamp']): stable, ascending
RECURSIVE InsertByTimestamp(_, _)
InsertByTimestamp(r, sorted) ==
    IF sorted = << >> THEN << r >>
    ELSE IF sorted[Len(sorted)].timestamp <= r.timestamp
         THEN Append(sorted, r)
         ELSE Append(InsertByTimestamp(r, SubSeq(sorted, 1, Len(sorted) - 1)),
                     sorted[Len(sorted)])

RECURSIVE SortedByTimestamp(_)
SortedByTimestamp(rs) ==
    IF rs = << >> THEN << >>
    ELSE InsertByTimestamp(rs[Len(rs)], SortedByTimestamp(SubSeq(rs, 1, Len(rs) - 1)))

\* Variant: a gap of exactly 30 seconds is enough
FarEnoughInclusive(prev_time, curr_time) ==
    (curr_time - prev_time) >= MinGapSeconds * TicksPerSecond

\* (curr_time - prev_time).total_seconds() > 30
FarEnough(prev_time, curr_time) ==
    (curr_time - prev_time) > MinGapSeconds * TicksPerSecond

\* The loop over results_sorted[1:], kept so far in acc, from index i on.
RECURSIVE DedupeFrom(_, _, _)
DedupeFrom(results_sorted, i, acc) ==
    IF i > Len(results_sorted) THEN acc
    ELSE DedupeFrom(results_sorted, i + 1,
                    IF FarEnough(acc[Len(acc)].timestamp, results_sorted[i].timestamp)
                    THEN Append(acc, results_sorted[i])
                    ELSE acc)

Dedupe(rs) ==
    IF rs = << >> THEN << >>
    ELSE LET results_sorted == SortedByTimestamp(rs)
         IN  DedupeFrom(results_sorted, 2, << results_sorted[1] >>)

\* f"{x:.4f}": the delta in ten-thousandths of a degree
FormatDelta(x) == x * 10000

\* The DataFrame: one row per kept hit, columns renamed, delta formatted.
BuildTable(kept) ==
    [i \in 1..Len(kept) |->
        [DateTime |-> kept[i].datetime_str, Planet1 |-> kept[i].planet1,
         Planet2 |-> kept[i].planet2, Target |-> kept[i].target,
         Delta |-> FormatDelta(kept[i].delta)]]

\* The while condition fails: deduplicate and return the table.
ScanReturn ==
    /\ pc = "loop"
    /\ ~(current_dt <= end_date)
    /\ deduped' = Dedupe(results)
    /\ table' = BuildTable(Dedupe(results))
    /\ pc' = "returned"
    /\ UNCHANGED << argVars, results, current_dt, next_dt, t_lo, t_hi, t_mid, ti,
                    mid_diff, lo_diff, hi_diff, brackets_processed,
                    minutes_processed, progress, gs, probes, t_best, diff_best,
                    ui, probe, exc, eph_used >>

----------------------------------------------------------------------------
\* Inputs of the model

Bodies == {"Sun", "Moon", "Mars"}

Uniform(moon0, moonNum, den) ==
    [lon0 |-> [p \in Bodies |-> IF p = "Moon" THEN moon0 ELSE IF p = "Mars" THEN 100 ELSE 0],
     num  |-> [p \in Bodies |-> IF p = "Moon" THEN moonNum ELSE 0],
     den  |-> den]

\* Moon moving one degree per two or per five ticks, either direction, or
\* slowly: one degree per three hundred ticks
Ephemerides ==
    { Uniform(m0, n, d) : m0 \in {210, 209, 150, 300, 60}, n \in {1, -1}, d \in {2, 5} }
      \cup { Uniform(m0, 1, 300) : m0 \in {0, 1, 357} }

AngleLists == { << 0 >>, << 0, 90 >>, << 90, 0 >> }
Orbs == {1, 2}
\* << start_date, end_date, step_minutes >>, the dates in seconds
Windows == { << 0, 60, 1 >>, << 0, 120, 1 >>, << 0, 90, 1 >>, << 0, 120, 2 >>,
             << 0, 4200, 70 >>, << 0, 0, 1 >>, << 60, 0, 1 >> }

NoUi == [mode |-> None, shown |-> None]
NoProbe == [separation |-> 0, target |-> 0, diff |-> Unset, swapped |-> Unset]

\* The locals of scan_harmonic_timing_refined as the while loop is first reached
ScanEntry ==
    /\ pc = "loop"
    /\ results = << >>
    /\ current_dt = start_date
    /\ next_dt = Unset /\ t_lo = Unset /\ t_hi = Unset /\ t_mid = Unset
    /\ ti = 0
    /\ mid_diff = Unset /\ lo_diff = Unset /\ hi_diff = Unset
    /\ brackets_processed = 0
    /\ minutes_processed = 0
    /\ progress = 0
    /\ gs = NoFrame
    /\ probes = {}
    /\ t_best = Unset /\ diff_best = Unset
    /\ deduped = << >> /\ table = << >>

Init ==
    /\ eph \in Ephemerides
    /\ planet1 = "Moon" /\ planet2 = "Sun"
    /\ harmonic_angles \in AngleLists
    /\ orb \in Orbs
    /\ \E w \in Windows : /\ start_date = w[1] * TicksPerSecond
                       /\ end_date = w[2] * TicksPerSecond
                       /\ step_minutes = w[3]
    /\ ScanEntry
    /\ ui = NoUi
    /\ probe = NoProbe
    /\ exc = None
    /\ eph_used = FALSE

Next ==
    \/ LoopEnter
    \/ CoarseCheck
    \/ CoarseRaise
    \/ RefineStart
    \/ RefineIter
    \/ RefineReturn
    \/ RefineRaise
    \/ Accept
    \/ NextBracket
    \/ ScanReturn

Spec == Init /\ [][Next]_vars

----------------------------------------------------------------------------
\* angle_diff_to_target_deg as a function of the separation and the target

Degrees == 0..(FullCircle - 1)

InitAngle ==
    /\ probe \in [separation : Degrees, target : Degrees, diff : {Unset}, swapped : {Unset}]
    /\ pc = "angle"
    /\ eph = Uniform(0, 0, 1)
    /\ planet1 = "Moon" /\ planet2 = "Sun"
    /\ harmonic_angles = << >>
    /\ orb = 1
    /\ start_date = 0 /\ end_date = 0 /\ step_minutes = 1
    /\ results = << >>
    /\ current_dt = 0
    /\ next_dt = Unset /\ t_lo = Unset /\ t_hi = Unset /\ t_mid = Unset
    /\ ti = 0
    /\ mid_diff = Unset /\ lo_diff = Unset /\ hi_diff = Unset
    /\ brackets_processed = 0 /\ minutes_processed = 0 /\ progress = 0
    /\ gs = NoFrame /\ probes = {}
    /\ t_best = Unset /\ diff_best = Unset
    /\ deduped = << >> /\ table = << >>
    /\ ui = NoUi
    /\ exc = None
    /\ eph_used = FALSE

\* The deviation for (separation, target) and for the two swapped.
AngleDiffEval ==
    /\ pc = "angle"
    /\ probe' = [probe EXCEPT !.diff = SeparationDiff(probe.separation, probe.target),
                              !.swapped = SeparationDiff(probe.target, probe.separation)]
    /\ pc' = "angle_done"
    /\ UNCHANGED << argVars, results, current_dt, next_dt, t_lo, t_hi, t_mid, ti,
                    mid_diff, lo_diff, hi_diff, brackets_processed,
                    minutes_processed, progress, gs, probes, t_best, diff_best,
                    deduped, table, ui, exc, eph_used >>

SpecAngle == InitAngle /\ [][AngleDiffEval]_vars

----------------------------------------------------------------------------
\* The end of a scan (deduplication, table) on any list of collected hits

\* in ticks: gaps of exactly 30 seconds, of one tick more, and shorter ones
HitTimes == { 0, TicksPerSecond, MinGapSeconds * TicksPerSecond,
              (MinGapSeconds + 1) * TicksPerSecond, (MinGapSeconds + 1) * TicksPerSecond + 1,
              2 * (MinGapSeconds + 1) * TicksPerSecond, 3 * MinGapSeconds * TicksPerSecond }
SomeHits == { [timestamp |-> t, datetime_str |-> utc_strftime(t),
               planet1 |-> "Moon", planet2 |-> "Sun", target |-> a, delta |-> 0] :
              t \in HitTimes, a \in {0, 90} }

RECURSIVE ListsUpTo(_, _)
ListsUpTo(S, n) ==
    IF n = 0 THEN { << >> }
    ELSE LET shorter == ListsUpTo(S, n - 1)
         IN  shorter \cup { Append(l, x) : l \in shorter, x \in S }

InitDedupe ==
    /\ results \in ListsUpTo(SomeHits, MaxResults)
    /\ pc = "loop"
    /\ eph = Uniform(0, 0, 1)
    /\ planet1 = "Moon" /\ planet2 = "Sun"
    /\ harmonic_angles = << 0, 90 >>
    /\ orb = 1
    /\ start_date = 0 /\ end_date = 0 /\ step_minutes = 1
    /\ current_dt = 1
    /\ next_dt = 0 /\ t_lo = 0 /\ t_hi = 0 /\ t_mid = 0
    /\ ti = 3
    /\ mid_diff = Unset /\ lo_diff = Unset /\ hi_diff = Unset
    /\ brackets_processed = 0 /\ minutes_processed = 0 /\ progress = 0
    /\ gs = NoFrame /\ probes = {}
    /\ t_best = Unset /\ diff_best = Unset
    /\ deduped = << >> /\ table = << >>
    /\ ui = NoUi
    /\ probe = NoProbe
    /\ exc = None
    /\ eph_used = TRUE

SpecDedupe == InitDedupe /\ [][ScanReturn]_vars

----------------------------------------------------------------------------
\* main(): one run of the script on the sidebar's inputs

SecondsPerDay == 86400

\* date_to_utc_datetime(date_obj, hour, minute, second), dates counted in days
date_to_utc_datetime(date_obj, hour, minute, second) ==
    (date_obj * SecondsPerDay + hour * 3600 + minute * 60 + second) * TicksPerSecond

ErrPlanets == "Please select two different planets."
ErrAngles == "Please select at least one harmonic angle."
ErrDates == "End date must be after start date."
ErrEphemeris == "Failed to load ephemeris"
Welcome == "Welcome to Luminara"
Results == "Harmonic Timing Results"

\* Variant: equal start and end dates pass
ConfigErrorLenient(u) ==
    IF u.planet1 = u.planet2 THEN ErrPlanets
    ELSE IF u.mode = "Harmonics" /\ u.selected_angles = << >> THEN ErrAngles
    ELSE IF u.start_date > u.end_date THEN ErrDates
    ELSE None

\* The three checks of "if run_scan:", in their order; None when all pass.
ConfigError(u) ==
    IF u.planet1 = u.planet2 THEN ErrPlanets
    ELSE IF u.mode = "Harmonics" /\ u.selected_angles = << >> THEN ErrAngles
    ELSE IF u.start_date >= u.end_date THEN ErrDates
    ELSE None

UiInputs ==
    [mode : {"Harmonics", "Fingerprint"},
     planet1 : Bodies, planet2 : Bodies,
     selected_angles : { << >>, << 0, 90, 180 >>, << 360 >> },
     anchor_date : {0}, anchor_hour : {12}, anchor_minute : {0},
     orb : {1},
     start_date : 0..2, end_date : 0..2,
     step_minutes : {30, 240},
     run_scan : BOOLEAN,
     shown : {None}]

InitMain ==
    /\ ui \in UiInputs
    /\ pc = "main"
    /\ eph \in { Uniform(210, 1, 2), Uniform(1, 1, 300) }
    /\ planet1 = None /\ planet2 = None
    /\ harmonic_angles = << >>
    /\ orb = Unset
    /\ start_date = Unset /\ end_date = Unset /\ step_minutes = Unset
    /\ results = << >>
    /\ current_dt = Unset
    /\ next_dt = Unset /\ t_lo = Unset /\ t_hi = Unset /\ t_mid = Unset
    /\ ti = 0
    /\ mid_diff = Unset /\ lo_diff = Unset /\ hi_diff = Unset
    /\ brackets_processed = 0 /\ minutes_processed = 0 /\ progress = 0
    /\ gs = NoFrame /\ probes = {}
    /\ t_best = Unset /\ diff_best = Unset
    /\ deduped = << >> /\ table = << >>
    /\ probe = NoProbe
    /\ exc = None
    /\ eph_used = FALSE

scanLocals == << results, current_dt, next_dt, t_lo, t_hi, t_mid, ti,
                 mid_diff, lo_diff, hi_diff, brackets_processed,
                 minutes_processed, progress, gs, probes, t_best, diff_best,
                 deduped, table >>

\* get_ephemeris() fails: the error is shown and main returns.
MainEphemerisFail ==
    /\ pc = "main"
    /\ ui' = [ui EXCEPT !.shown = ErrEphemeris]
    /\ pc' = "main_done"
    /\ UNCHANGED << argVars, scanLocals, probe, exc, eph_used >>

\* The button was not pressed: the instructions card.
MainWelcome ==
    /\ pc = "main"
    /\ ~ui.run_scan
    /\ ui' = [ui EXCEPT !.shown = Welcome]
    /\ pc' = "main_done"
    /\ UNCHANGED << argVars, scanLocals, probe, exc, eph_used >>

\* A check of the request fails: st.error and return.
MainReject ==
    /\ pc = "main"
    /\ ui.run_scan
    /\ ConfigError(ui) # None
    /\ ui' = [ui EXCEPT !.shown = ConfigError(ui)]
    /\ pc' = "main_done"
    /\ UNCHANGED << argVars, scanLocals, probe, exc, eph_used >>

AnchorTime(u) == date_to_utc_datetime(u.anchor_date, u.anchor_hour, u.anchor_minute, 0)

\* target_angles of the request; Fingerprint mode evaluates the anchor angle
TargetAngles(u) ==
    IF u.mode = "Fingerprint"
    THEN << angle_between_ecliptic_longitudes_deg(eph, u.planet1, u.planet2, AnchorTime(u)) >>
    ELSE u.selected_angles

\* The request passes the checks: the targets and the window are worked out
\* and scan_harmonic_timing_refined is entered.
MainScan ==
    /\ pc = "main"
    /\ ui.run_scan
    /\ ConfigError(ui) = None
    /\ eph_used' = (ui.mode = "Fingerprint")
    /\ planet1' = ui.planet1
    /\ planet2' = ui.planet2
    /\ harmonic_angles' = TargetAngles(ui)
    /\ orb' = ui.orb
    /\ start_date' = date_to_utc_datetime(ui.start_date, 0, 0, 0)
    /\ end_date' = date_to_utc_datetime(ui.end_date, 23, 59, 59)
    /\ step_minutes' = ui.step_minutes
    /\ ui' = [ui EXCEPT !.shown = Results]
    /\ pc' = "loop"
    /\ results' = << >>
    /\ current_dt' = date_to_utc_datetime(ui.start_date, 0, 0, 0)
    /\ brackets_processed' = 0
    /\ minutes_processed' = 0
    /\ UNCHANGED << eph, next_dt, t_lo, t_hi, t_mid, ti, mid_diff, lo_diff, hi_diff,
                    progress, gs, probes, t_best, diff_best, deduped, table,
                    probe, exc >>

\* The anchor angle's ephemeris evaluation raises out of main.
MainAnchorRaise ==
    /\ pc = "main"
    /\ ui.run_scan
    /\ ConfigError(ui) = None
    /\ ui.mode = "Fingerprint"
    /\ eph_used' = TRUE
    /\ exc' = "propagated"
    /\ pc' = "raised"
    /\ UNCHANGED << argVars, scanLocals, ui, probe >>

NextMain ==
    \/ MainEphemerisFail
    \/ MainWelcome
    \/ MainReject
    \/ MainScan
    \/ MainAnchorRaise

SpecMain == InitMain /\ [][NextMain]_vars

----------------------------------------------------------------------------
\* Properties of the scan

ValidWindow == start_date < end_date /\ step_minutes > 0
InBracket == pc \in {"target", "refine", "refine_loop", "accept"}
Refining == {"refine", "refine_loop"}

\* C1: a scan with start_date < end_date and step_minutes > 0 terminates: once
\* the bracket ending at end_date has been processed the loop is left and the
\* result table is returned.
C1_LoopLeftAfterLastBracket ==
    [][(ValidWindow /\ pc = "loop" /\ brackets_processed > 0 /\ current_dt = end_date)
        => pc' = "returned"]_vars

\* C2: the pair returned by refine_hit_time_golden was observed at one probe:
\* diff_best is the deviation to the target at the returned time t_best.
C2_ReturnedPairObserved ==
    pc = "accept" =>
        /\ << t_best, diff_best >> \in probes
        /\ diff_best = Dev(t_best, CurTarget)

\* C3: every record of the results list, and every row of the returned table,
\* has delta <= orb.
C3_OrbFiltering ==
    /\ \A i \in 1..Len(results) : results[i].delta <= orb
    /\ \A i \in 1..Len(table) : table[i].Delta <= FormatDelta(orb)

\* C3 witness: a hit is on record and a later refinement, let through by the
\* widened coarse threshold, has just been discarded for missing the orb.
C3_Witness ==
    /\ pc = "target"
    /\ Len(results) > 0
    /\ exc = None
    /\ diff_best > orb
    /\ t_best > results[Len(results)].timestamp

\* C5: the refined deviation is no larger than the deviation at the bracket's
\* coarse midpoint.
C5_RefinedNotWorseThanMidpoint ==
    pc = "accept" => diff_best <= mid_diff

\* C7: a window exactly one coarse step wide is scanned as the single bracket
\* [start_date, end_date] and no other.
C7_SingleBracket ==
    (ValidWindow /\ end_date - start_date = StepTicks /\ InBracket)
        => (t_lo = start_date /\ t_hi = end_date)

\* C9: when refine_hit_time_golden raises, the hits collected so far stay as
\* they are, nothing is added, and the scan goes on with the next target of
\* the same bracket.
C9_RefineFailureSkipped ==
    [][(pc \in Refining /\ pc' \notin (Refining \cup {"accept"}))
        => /\ pc' = "target"
           /\ ti' = ti + 1
           /\ results' = results
           /\ << current_dt', next_dt', t_lo', t_hi', t_mid' >>
                = << current_dt, next_dt, t_lo, t_hi, t_mid >>]_vars

\* C9 witness: a refinement failure was caught while hits were on record and
\* a further target of the bracket is still to be examined.
C9_Witness ==
    /\ exc = "caught"
    /\ pc = "target"
    /\ Len(results) > 0
    /\ ti <= Len(harmonic_angles)

\* C10: whenever one of the three samples of the interval is within
\* orb x 1.5 of the target, refine_hit_time_golden is invoked on the interval.
C10_AnySampleUnderThresholdRefines ==
    [][(/\ pc = "target"
        /\ ti <= Len(harmonic_angles)
        /\ pc' # "raised"
        /\ 2 * Min3(Dev(t_lo, CurTarget), Dev(t_mid, CurTarget), Dev(t_hi, CurTarget))
             <= 3 * orb)
        => pc' = "refine"]_vars

\* C11: the deviation returned by refine_hit_time_golden is the smallest one
\* evaluated at any probe of the call, the two initial probes included.
C11_ReturnedIsSmallestObserved ==
    pc = "accept" => \A p \in probes : diff_best <= p[2]

\* C11 witness: a call of three probes or more has returned a value smaller
\* than another probe's, and the value was carried over from an earlier
\* iteration: it is not the deviation at the returned time, whose probe was
\* the last one evaluated on that side.
C11_Witness ==
    /\ pc = "accept"
    /\ Cardinality(probes) >= 3
    /\ \E p \in probes : p[2] > diff_best
    /\ \E p \in probes : p[2] = diff_best /\ p[1] # t_best
    /\ << t_best, diff_best >> \notin probes

\* C12: the coarse brackets tile the window. Each bracket entered lies in
\* [start_date, end_date], is at most one step wide and has its midpoint
\* sample inside it; the first starts at start_date and each later one starts
\* where the previous one ended.
C12_BracketsTileWindow ==
    [][(pc = "loop" /\ pc' = "target")
        => /\ start_date <= t_lo' /\ t_lo' <= t_mid' /\ t_mid' <= t_hi'
           /\ t_hi' <= end_date
           /\ t_hi' - t_lo' <= StepTicks
           /\ t_lo' = (IF brackets_processed = 0 THEN start_date ELSE t_hi)]_vars

\* C12 witness: the scan is in a later bracket that was cut short at end_date
\* and starts one full step after start_date.
C12_Witness ==
    /\ pc = "target"
    /\ brackets_processed = 1
    /\ t_lo = start_date + StepTicks
    /\ t_hi = end_date
    /\ 0 < t_hi - t_lo /\ t_hi - t_lo < StepTicks

----------------------------------------------------------------------------
\* Properties of the helpers

\* the circular minimum distance of two angles
CircularMinDistance(x, y) == Min2(Abs(x - y), FullCircle - Abs(x - y))

\* C6: for a separation and a target in [0, 360), in whole degrees,
\* angle_diff_to_target_deg is the circular minimum distance: within [0, 180],
\* unchanged when the two are swapped, 20 for (10, 350) and 1 for (359, 0).
C6_CircularDistance ==
    pc = "angle_done" =>
        /\ probe.diff = CircularMinDistance(probe.separation, probe.target)
        /\ probe.diff \in 0..HalfCircle
        /\ probe.diff = probe.swapped
        /\ (probe.separation = 10 /\ probe.target = 350) => probe.diff = 20
        /\ (probe.separation = 359 /\ probe.target = 0) => probe.diff = 1

\* C6 witness: the wrap-around case 359 against 0 has been evaluated.
C6_Witness ==
    /\ pc = "angle_done"
    /\ probe.separation = 359 /\ probe.target = 0
    /\ probe.diff = 1

\* C4: consecutive hits of the returned list are more than 30 seconds apart,
\* so the list is strictly ascending by timestamp.
C4_MinGapBetweenKeptHits ==
    pc = "returned" =>
        \A i \in 1..(Len(deduped) - 1) :
            deduped[i + 1].timestamp - deduped[i].timestamp > MinGapSeconds * TicksPerSecond

\* C4 witness: hits of two targets collected out of time order, some dropped
\* as too close, at least two kept.
C4_Witness ==
    /\ pc = "returned"
    /\ Len(deduped) >= 2
    /\ Len(deduped) < Len(results)
    /\ \E i \in 1..(Len(results) - 1) : results[i].timestamp > results[i + 1].timestamp
    /\ \E i, j \in 1..Len(results) : results[i].target # results[j].target

----------------------------------------------------------------------------
\* Properties of main

\* a request the configuration rules forbid: the two bodies identical, no
\* target in Harmonics mode, or the start date not before the end date
InvalidRequest ==
    \/ ui.planet1 = ui.planet2
    \/ ui.mode = "Harmonics" /\ Len(ui.selected_angles) = 0
    \/ ~(ui.start_date < ui.end_date)

\* C8: an invalid scan request is rejected with an error and the scan does
\* not start: no ephemeris longitude is evaluated and
\* scan_harmonic_timing_refined is not entered.
C8_InvalidRequestRejected ==
    (ui.mode # None /\ ui.run_scan /\ InvalidRequest /\ pc # "main") =>
        /\ ui.shown \in {ErrPlanets, ErrAngles, ErrDates, ErrEphemeris}
        /\ pc = "main_done"
        /\ ~eph_used
        /\ current_dt = Unset

\* C8 witness: a Fingerprint request on one body twice has been rejected.
C8_Witness ==
    /\ pc = "main_done"
    /\ ui.mode = "Fingerprint"
    /\ ui.run_scan
    /\ ui.planet1 = ui.planet2
    /\ ui.shown = ErrPlanets
    /\ ~eph_used

====
